---- MODULE Spec2Model ----
(***************************************************************************)
(* Model of skills/security-audit/scripts/security_scan.py: one run of     *)
(* main(), the four tool runners, format_report and the exit policy.       *)
(*                                                                         *)
(* JSON values are tagged records [t, v] (t in null, bool, num, str, list, *)
(* dict); a dict also carries its keys in insertion order (k).  A Python   *)
(* call that can raise returns [ok |-> TRUE, val |-> ...] or               *)
(* [ok |-> FALSE, exc |-> <exception type>, msg |-> <str(e)>].             *)
(***************************************************************************)
EXTENDS Integers, Sequences, FiniteSets, TLC

VARIABLES pc, path_exists, skip, output, results, invoked, last,
          report, report_data, exit_code, crashed

vars == <<pc, path_exists, skip, output, results, invoked, last,
          report, report_data, exit_code, crashed>>

(* ----------------------------- bounds ---------------------------------- *)

\* Child exit codes are drawn from 0..MaxExitCode.
MaxExitCode == 2

\* Number of findings in the long bandit payload (beyond the report's limit).
ManyFindings == 11

\* format_report renders result.findings[:10].
ReportLimit == 10

(* --------------------------- JSON values ------------------------------- *)

JNull == [t |-> "null"]
JBool(b) == [t |-> "bool", v |-> b]
JNum(n) == [t |-> "num", v |-> n]
JStr(s) == [t |-> "str", v |-> s]
JList(xs) == [t |-> "list", v |-> xs]
JDict(keys, fields) == [t |-> "dict", k |-> keys, v |-> fields]

EmptyDict == [t |-> "dict", k |-> <<>>, v |-> [x \in {} |-> JNull]]

Ok(x) == [ok |-> TRUE, val |-> x]
Raise(e, m) == [ok |-> FALSE, exc |-> e, msg |-> m]

\* type(x).__name__
TypeName(x) ==
    CASE x.t = "null" -> "NoneType"
      [] x.t = "bool" -> "bool"
      [] x.t = "num" -> "int"
      [] x.t = "str" -> "str"
      [] x.t = "list" -> "list"
      [] x.t = "dict" -> "dict"

\* The characters of the strings the payloads use as a findings value.
PyChars(s) ==
    CASE s = "" -> <<>>
      [] s = "ok" -> <<JStr("o"), JStr("k")>>
      [] OTHER -> <<JStr(s)>>

\* bool(x)
Truthy(x) ==
    CASE x.t = "null" -> FALSE
      [] x.t = "bool" -> x.v
      [] x.t = "num" -> x.v # 0
      [] x.t = "str" -> x.v # ""
      [] x.t = "list" -> Len(x.v) > 0
      [] x.t = "dict" -> Len(x.k) > 0

\* len(x)
PyLen(x) ==
    CASE x.t = "list" -> Ok(Len(x.v))
      [] x.t = "dict" -> Ok(Len(x.k))
      [] x.t = "str" -> Ok(Len(PyChars(x.v)))
      [] OTHER -> Raise("TypeError", "object has no len()")

\* iter(x): the sequence a for loop over x visits.
PyIter(x) ==
    CASE x.t = "list" -> Ok(x.v)
      [] x.t = "dict" -> Ok([i \in 1..Len(x.k) |-> JStr(x.k[i])])
      [] x.t = "str" -> Ok(PyChars(x.v))
      [] OTHER -> Raise("TypeError", "object is not iterable")

\* x[:n]
PySlice(x, n) ==
    CASE x.t = "list" ->
           Ok(JList(SubSeq(x.v, 1, IF Len(x.v) < n THEN Len(x.v) ELSE n)))
      [] x.t = "str" ->
           Ok(JList(SubSeq(PyChars(x.v), 1,
                    IF Len(PyChars(x.v)) < n THEN Len(PyChars(x.v)) ELSE n)))
      [] x.t = "dict" -> Raise("TypeError", "unhashable type: 'slice'")
      [] OTHER -> Raise("TypeError", "object is not subscriptable")

\* x.get(key, default)
PyGet(x, key, default) ==
    IF x.t = "dict"
    THEN Ok(IF key \in DOMAIN x.v THEN x.v[key] ELSE default)
    ELSE Raise("AttributeError", "object has no attribute 'get'")

\* str.upper() on the strings of the model.
Upper(s) ==
    CASE s = "high" -> "HIGH"
      [] s = "High" -> "HIGH"
      [] s = "critical" -> "CRITICAL"
      [] s = "Critical" -> "CRITICAL"
      [] s = "low" -> "LOW"
      [] s = "medium" -> "MEDIUM"
      [] s = "bandit" -> "BANDIT"
      [] s = "pip-audit" -> "PIP-AUDIT"
      [] s = "safety" -> "SAFETY"
      [] s = "detect-secrets" -> "DETECT-SECRETS"
      [] OTHER -> s

\* x.upper()
PyUpper(x) ==
    IF x.t = "str"
    THEN Ok(Upper(x.v))
    ELSE Raise("AttributeError", "object has no attribute 'upper'")

(* ------------------------ tool output payloads ------------------------- *)

\* A bandit result record (the fields format_report and main read).
BanditFinding(sev, line) ==
    JDict(<<"issue_severity", "issue_text", "filename", "line_number">>,
          [issue_severity |-> sev, issue_text |-> JStr("Use of exec detected."),
           filename |-> JStr("src/app.py"), line_number |-> JNum(line)])

\* A pip-audit dependency record.
PipAuditFinding ==
    JDict(<<"name", "version", "vulns">>,
          [name |-> JStr("requests"), version |-> JStr("2.0.0"),
           vulns |-> JList(<<JStr("PYSEC-2023-74")>>)])

\* A dependency record that also carries an issue_severity field.
PipAuditFindingSev(sev) ==
    JDict(<<"name", "version", "vulns", "issue_severity">>,
          [name |-> JStr("requests"), version |-> JStr("2.0.0"),
           vulns |-> JList(<<JStr("PYSEC-2023-74")>>), issue_severity |-> sev])

\* A detect-secrets record of one file.
SecretRecord(type, line) ==
    JDict(<<"type", "line_number", "issue_severity">>,
          [type |-> JStr(type), line_number |-> JNum(line),
           issue_severity |-> JStr("HIGH")])

LongFindings ==
    [i \in 1..ManyFindings |->
        BanditFinding(IF i = ManyFindings THEN JStr("CRITICAL") ELSE JStr("LOW"), i)]

Malformed == "{not json"
BanditLongText == "{\"results\": [<LOW, ..., LOW, CRITICAL>]}"

\* The stdout texts each tool may print (record bodies abbreviated; json_loads
\* below gives the value each text decodes to).
BanditStdout ==
    { "", Malformed, "[]", "{}",
      "{\"results\": [{\"issue_severity\": \"LOW\"}]}",
      "{\"results\": [{\"issue_severity\": \"high\"}]}",
      "{\"results\": [{\"issue_severity\": null}]}",
      "{\"results\": 5}",
      "{\"results\": null}",
      BanditLongText }

PipAuditStdout ==
    { "", Malformed, "{}",
      "[{\"name\": \"requests\"}]",
      "[{\"name\": \"requests\", \"issue_severity\": \"HIGH\"}]",
      "[{\"name\": \"requests\", \"issue_severity\": 5}]" }

SafetyStdout ==
    { "", Malformed, "[]",
      "{\"vulnerabilities\": [{\"name\": \"requests\"}]}",
      "{\"vulnerabilities\": [{\"name\": \"requests\", \"issue_severity\": \"critical\"}]}",
      "{\"vulnerabilities\": 5}",
      "{\"vulnerabilities\": \"ok\"}" }

SecretsStdout ==
    { "", Malformed,
      "{\"results\": {}}",
      "{\"results\": []}",
      "{\"results\": {\"app.py\": 5}}",
      "{\"results\": {\"app.py\": [5]}}",
      "{\"results\": {\"app.py\": [{\"type\": \"Secret Keyword\"}]}}",
      "{\"results\": {\"a.py\": [{}], \"b.py\": [{}, {}]}}" }

\* json.loads on the texts above; any other text is not JSON.
json_loads(s) ==
    CASE s = "[]" -> Ok(JList(<<>>))
      [] s = "{}" -> Ok(EmptyDict)
      [] s = "{\"results\": [{\"issue_severity\": \"LOW\"}]}" ->
           Ok(JDict(<<"results">>,
                    [results |-> JList(<<BanditFinding(JStr("LOW"), 1)>>)]))
      [] s = "{\"results\": [{\"issue_severity\": \"high\"}]}" ->
           Ok(JDict(<<"results">>,
                    [results |-> JList(<<BanditFinding(JStr("high"), 1)>>)]))
      [] s = "{\"results\": [{\"issue_severity\": null}]}" ->
           Ok(JDict(<<"results">>,
                    [results |-> JList(<<BanditFinding(JNull, 1)>>)]))
      [] s = "{\"results\": 5}" -> Ok(JDict(<<"results">>, [results |-> JNum(5)]))
      [] s = "{\"results\": null}" -> Ok(JDict(<<"results">>, [results |-> JNull]))
      [] s = BanditLongText ->
           Ok(JDict(<<"results">>, [results |-> JList(LongFindings)]))
      [] s = "[{\"name\": \"requests\"}]" -> Ok(JList(<<PipAuditFinding>>))
      [] s = "[{\"name\": \"requests\", \"issue_severity\": \"HIGH\"}]" ->
           Ok(JList(<<PipAuditFindingSev(JStr("HIGH"))>>))
      [] s = "[{\"name\": \"requests\", \"issue_severity\": 5}]" ->
           Ok(JList(<<PipAuditFindingSev(JNum(5))>>))
      [] s = "{\"vulnerabilities\": [{\"name\": \"requests\"}]}" ->
           Ok(JDict(<<"vulnerabilities">>,
                    [vulnerabilities |-> JList(<<PipAuditFinding>>)]))
      [] s = "{\"vulnerabilities\": [{\"name\": \"requests\", \"issue_severity\": \"critical\"}]}" ->
           Ok(JDict(<<"vulnerabilities">>,
                    [vulnerabilities |-> JList(<<PipAuditFindingSev(JStr("critical"))>>)]))
      [] s = "{\"vulnerabilities\": 5}" ->
           Ok(JDict(<<"vulnerabilities">>, [vulnerabilities |-> JNum(5)]))
      [] s = "{\"vulnerabilities\": \"ok\"}" ->
           Ok(JDict(<<"vulnerabilities">>, [vulnerabilities |-> JStr("ok")]))
      [] s = "{\"results\": {}}" -> Ok(JDict(<<"results">>, [results |-> EmptyDict]))
      [] s = "{\"results\": []}" -> Ok(JDict(<<"results">>, [results |-> JList(<<>>)]))
      [] s = "{\"results\": {\"app.py\": 5}}" ->
           Ok(JDict(<<"results">>,
                    [results |-> JDict(<<"app.py">>, ("app.py" :> JNum(5)))]))
      [] s = "{\"results\": {\"app.py\": [5]}}" ->
           Ok(JDict(<<"results">>,
                    [results |-> JDict(<<"app.py">>, ("app.py" :> JList(<<JNum(5)>>)))]))
      [] s = "{\"results\": {\"app.py\": [{\"type\": \"Secret Keyword\"}]}}" ->
           Ok(JDict(<<"results">>,
                    [results |-> JDict(<<"app.py">>,
                        ("app.py" :> JList(<<SecretRecord("Secret Keyword", 3)>>)))]))
      [] s = "{\"results\": {\"a.py\": [{}], \"b.py\": [{}, {}]}}" ->
           Ok(JDict(<<"results">>,
                    [results |-> JDict(<<"a.py", "b.py">>,
                        ("a.py" :> JList(<<SecretRecord("AWS Access Key", 7)>>))
                        @@ ("b.py" :> JList(<<SecretRecord("Private Key", 1),
                                              SecretRecord("Secret Keyword", 9)>>)))]))
      [] OTHER -> Raise("JSONDecodeError",
                        "Expecting property name enclosed in double quotes: line 1 column 2 (char 1)")

(* ----------------------------- ScanResult ------------------------------ *)

\* ScanResult(tool, success, findings, error); error defaults to None.
ScanResult(tool, success, findings, error) ==
    [tool |-> tool, success |-> success, findings |-> findings, error |-> error]

\* What subprocess.run did: FileNotFoundError, another exception, or a
\* CompletedProcess (returncode, stdout, stderr).
NotFound == [kind |-> "not_found"]
Raised(m) == [kind |-> "raised", msg |-> m]
Exited(rc, out, err) ==
    [kind |-> "exited", returncode |-> rc, stdout |-> out, stderr |-> err]

ExitCodes == 0..MaxExitCode
StderrTexts == {"", "usage: invalid arguments"}
ExceptionTexts == {"", "[Errno 13] Permission denied"}

Outcomes(stdouts) ==
    {NotFound} \cup {Raised(m) : m \in ExceptionTexts}
    \cup {Exited(rc, out, err) : rc \in ExitCodes, out \in stdouts, err \in StderrTexts}

\* str(e) of an exception raised inside a runner's try block.
AttrError(x, attr) ==
    Raise("AttributeError",
          "'" \o TypeName(x) \o "' object has no attribute '" \o attr \o "'")

\* data.get(key, default) as the runners call it.
DataGet(data, key, default) ==
    IF data.t = "dict" THEN PyGet(data, key, default) ELSE AttrError(data, "get")

run_bandit(o) ==
    IF o.kind = "not_found"
    THEN ScanResult("bandit", FALSE, JList(<<>>),
                    JStr("bandit not installed. Run: pip install bandit"))
    ELSE IF o.kind = "raised"
    THEN ScanResult("bandit", FALSE, JList(<<>>), JStr(o.msg))
    ELSE IF o.returncode \in {0, 1}
    THEN LET data == IF o.stdout # ""
                     THEN json_loads(o.stdout)
                     ELSE Ok(JDict(<<"results">>, [results |-> JList(<<>>)]))
             got == IF data.ok THEN DataGet(data.val, "results", JList(<<>>)) ELSE data
         IN IF got.ok
            THEN ScanResult("bandit", TRUE, got.val, JNull)
            ELSE ScanResult("bandit", FALSE, JList(<<>>), JStr(got.msg))
    ELSE ScanResult("bandit", FALSE, JList(<<>>), JStr(o.stderr))

\* Mutant of run_pip_audit: empty stdout is handed to json.loads as well.
run_pip_audit_NoEmptyGuard(o) ==
    IF o.kind = "not_found"
    THEN ScanResult("pip-audit", FALSE, JList(<<>>),
                    JStr("pip-audit not installed. Run: pip install pip-audit"))
    ELSE IF o.kind = "raised"
    THEN ScanResult("pip-audit", FALSE, JList(<<>>), JStr(o.msg))
    ELSE IF o.returncode \in {0, 1}
    THEN LET data == json_loads(o.stdout)
         IN IF data.ok
            THEN ScanResult("pip-audit", TRUE,
                            IF data.val.t = "list" THEN data.val ELSE JList(<<>>),
                            JNull)
            ELSE ScanResult("pip-audit", FALSE, JList(<<>>), JStr(data.msg))
    ELSE ScanResult("pip-audit", FALSE, JList(<<>>), JStr(o.stderr))

run_pip_audit(o) ==
    IF o.kind = "not_found"
    THEN ScanResult("pip-audit", FALSE, JList(<<>>),
                    JStr("pip-audit not installed. Run: pip install pip-audit"))
    ELSE IF o.kind = "raised"
    THEN ScanResult("pip-audit", FALSE, JList(<<>>), JStr(o.msg))
    ELSE IF o.returncode \in {0, 1}
    THEN LET data == IF o.stdout # "" THEN json_loads(o.stdout) ELSE Ok(JList(<<>>))
         IN IF data.ok
            THEN ScanResult("pip-audit", TRUE,
                            IF data.val.t = "list" THEN data.val ELSE JList(<<>>),
                            JNull)
            ELSE ScanResult("pip-audit", FALSE, JList(<<>>), JStr(data.msg))
    ELSE ScanResult("pip-audit", FALSE, JList(<<>>), JStr(o.stderr))

\* Mutant of run_safety: FileNotFoundError falls to the generic handler.
run_safety_GenericHandler(o) ==
    IF o.kind = "not_found"
    THEN ScanResult("safety", FALSE, JList(<<>>),
                    JStr("[Errno 2] No such file or directory: 'safety'"))
    ELSE IF o.kind = "raised"
    THEN ScanResult("safety", FALSE, JList(<<>>), JStr(o.msg))
    ELSE IF o.stdout # ""
    THEN LET data == json_loads(o.stdout)
             got == IF data.ok
                    THEN DataGet(data.val, "vulnerabilities", JList(<<>>))
                    ELSE data
         IN IF got.ok
            THEN ScanResult("safety", TRUE, got.val, JNull)
            ELSE ScanResult("safety", FALSE, JList(<<>>), JStr(got.msg))
    ELSE ScanResult("safety", TRUE, JList(<<>>), JNull)

run_safety(o) ==
    IF o.kind = "not_found"
    THEN ScanResult("safety", FALSE, JList(<<>>),
                    JStr("safety not installed. Run: pip install safety"))
    ELSE IF o.kind = "raised"
    THEN ScanResult("safety", FALSE, JList(<<>>), JStr(o.msg))
    ELSE IF o.stdout # ""
    THEN LET data == json_loads(o.stdout)
             got == IF data.ok
                    THEN DataGet(data.val, "vulnerabilities", JList(<<>>))
                    ELSE data
         IN IF got.ok
            THEN ScanResult("safety", TRUE, got.val, JNull)
            ELSE ScanResult("safety", FALSE, JList(<<>>), JStr(got.msg))
    ELSE ScanResult("safety", TRUE, JList(<<>>), JNull)

\* Mutant of SecretsOfFile: the tool's record is kept, with the file added.
RECURSIVE SecretsOfFile_KeepsRecord(_, _, _)
SecretsOfFile_KeepsRecord(file_path, secrets, i) ==
    IF i > Len(secrets)
    THEN Ok(<<>>)
    ELSE LET secret == secrets[i]
         IN IF secret.t # "dict"
            THEN AttrError(secret, "get")
            ELSE LET rest == SecretsOfFile_KeepsRecord(file_path, secrets, i + 1)
                     finding ==
                         JDict(<<"file", "type", "line", "issue_severity">>,
                               [file |-> JStr(file_path),
                                type |-> PyGet(secret, "type", JNull).val,
                                line |-> PyGet(secret, "line_number", JNull).val,
                                issue_severity |->
                                    PyGet(secret, "issue_severity", JNull).val])
                 IN IF rest.ok THEN Ok(<<finding>> \o rest.val) ELSE rest

\* The findings of one file of detect-secrets' results mapping (lines 149-154).
RECURSIVE SecretsOfFile(_, _, _)
SecretsOfFile(file_path, secrets, i) ==
    IF i > Len(secrets)
    THEN Ok(<<>>)
    ELSE LET secret == secrets[i]
         IN IF secret.t # "dict"
            THEN AttrError(secret, "get")
            ELSE LET rest == SecretsOfFile(file_path, secrets, i + 1)
                     finding ==
                         JDict(<<"file", "type", "line">>,
                               [file |-> JStr(file_path),
                                type |-> PyGet(secret, "type", JNull).val,
                                line |-> PyGet(secret, "line_number", JNull).val])
                 IN IF rest.ok THEN Ok(<<finding>> \o rest.val) ELSE rest

\* The loop over data.get("results", {}).items() (lines 147-154).
RECURSIVE FlattenSecrets(_, _)
FlattenSecrets(mapping, i) ==
    IF i > Len(mapping.k)
    THEN Ok(<<>>)
    ELSE LET file_path == mapping.k[i]
             secrets == PyIter(mapping.v[file_path])
         IN IF ~secrets.ok
            THEN Raise("TypeError",
                       "'" \o TypeName(mapping.v[file_path]) \o "' object is not iterable")
            ELSE LET here == SecretsOfFile(file_path, secrets.val, 1)
                     rest == IF here.ok THEN FlattenSecrets(mapping, i + 1) ELSE here
                 IN IF rest.ok THEN Ok(here.val \o rest.val) ELSE rest

check_secrets(o) ==
    IF o.kind = "not_found"
    THEN ScanResult("detect-secrets", FALSE, JList(<<>>),
                    JStr("detect-secrets not installed. Run: pip install detect-secrets"))
    ELSE IF o.kind = "raised"
    THEN ScanResult("detect-secrets", FALSE, JList(<<>>), JStr(o.msg))
    ELSE IF o.stdout # ""
    THEN LET data == json_loads(o.stdout)
             got == IF data.ok THEN DataGet(data.val, "results", EmptyDict) ELSE data
             findings == IF ~got.ok THEN got
                         ELSE IF got.val.t # "dict" THEN AttrError(got.val, "items")
                         ELSE FlattenSecrets(got.val, 1)
         IN IF findings.ok
            THEN ScanResult("detect-secrets", TRUE, JList(findings.val), JNull)
            ELSE ScanResult("detect-secrets", FALSE, JList(<<>>), JStr(findings.msg))
    ELSE ScanResult("detect-secrets", TRUE, JList(<<>>), JNull)

(* ---------------------------- format_report --------------------------- *)

\* One rendered finding (lines 198-221): the variant is chosen by the fields
\* the record has, and a bandit finding takes a second line for its file.
RenderFinding(i, finding) ==
    IF finding.t = "dict"
    THEN IF "issue_text" \in DOMAIN finding.v
         THEN << [kind |-> "item", i |-> i, variant |-> "bandit",
                  a |-> PyGet(finding, "issue_severity", JStr("UNKNOWN")).val,
                  b |-> PyGet(finding, "issue_text", JStr("Unknown issue")).val],
                 [kind |-> "file", file |-> PyGet(finding, "filename", JStr("unknown")).val] >>
         ELSE IF "name" \in DOMAIN finding.v
         THEN << [kind |-> "item", i |-> i, variant |-> "pip-audit",
                  a |-> PyGet(finding, "name", JNull).val,
                  b |-> PyGet(finding, "version", JStr("")).val,
                  c |-> PyGet(finding, "vulns", JList(<<>>)).val] >>
         ELSE IF "file" \in DOMAIN finding.v
         THEN << [kind |-> "item", i |-> i, variant |-> "detect-secrets",
                  a |-> PyGet(finding, "type", JStr("Secret")).val,
                  b |-> PyGet(finding, "file", JStr("unknown")).val,
                  c |-> PyGet(finding, "line", JStr("?")).val] >>
         ELSE << [kind |-> "item", i |-> i, variant |-> "raw", a |-> finding] >>
    ELSE << [kind |-> "item", i |-> i, variant |-> "raw", a |-> finding] >>

\* for i, finding in enumerate(shown, 1)
RECURSIVE RenderFindings(_, _)
RenderFindings(shown, i) ==
    IF i > Len(shown)
    THEN <<>>
    ELSE RenderFinding(i, shown[i]) \o RenderFindings(shown, i + 1)

\* Mutant of FormatResult: total_findings grows by the findings rendered.
FormatResult_CountsShown(result) ==
    LET head == << [kind |-> "header", tool |-> Upper(result.tool)], [kind |-> "dashes"] >>
        blank == << [kind |-> "blank"] >>
    IN IF ~result.success
       THEN Ok([lines |-> head \o << [kind |-> "error", msg |-> result.error] >> \o blank,
                count |-> 0])
       ELSE IF ~Truthy(result.findings)
       THEN Ok([lines |-> head \o << [kind |-> "no_issues"] >> \o blank, count |-> 0])
       ELSE LET n == PyLen(result.findings)
                shown == PySlice(result.findings, ReportLimit)
            IN IF ~n.ok THEN n
               ELSE IF ~shown.ok THEN shown
               ELSE Ok([lines |->
                          head \o << [kind |-> "found", n |-> n.val] >>
                          \o RenderFindings(shown.val.v, 1)
                          \o (IF n.val > ReportLimit
                              THEN << [kind |-> "more", n |-> n.val - ReportLimit] >>
                              ELSE <<>>)
                          \o blank,
                        count |-> Len(shown.val.v)])

\* Mutant of FormatResult: the overflow line is added from ten findings on.
FormatResult_MoreAtLimit(result) ==
    LET head == << [kind |-> "header", tool |-> Upper(result.tool)], [kind |-> "dashes"] >>
        blank == << [kind |-> "blank"] >>
    IN IF ~result.success
       THEN Ok([lines |-> head \o << [kind |-> "error", msg |-> result.error] >> \o blank,
                count |-> 0])
       ELSE IF ~Truthy(result.findings)
       THEN Ok([lines |-> head \o << [kind |-> "no_issues"] >> \o blank, count |-> 0])
       ELSE LET n == PyLen(result.findings)
                shown == PySlice(result.findings, ReportLimit)
            IN IF ~n.ok THEN n
               ELSE IF ~shown.ok THEN shown
               ELSE Ok([lines |->
                          head \o << [kind |-> "found", n |-> n.val] >>
                          \o RenderFindings(shown.val.v, 1)
                          \o (IF n.val >= ReportLimit
                              THEN << [kind |-> "more", n |-> n.val - ReportLimit] >>
                              ELSE <<>>)
                          \o blank,
                        count |-> n.val])

\* The body of the loop over results (lines 188-228): the lines of one result
\* and what it adds to total_findings, or the exception it raises.
FormatResult(result) ==
    LET head == << [kind |-> "header", tool |-> Upper(result.tool)], [kind |-> "dashes"] >>
        blank == << [kind |-> "blank"] >>
    IN IF ~result.success
       THEN Ok([lines |-> head \o << [kind |-> "error", msg |-> result.error] >> \o blank,
                count |-> 0])
       ELSE IF ~Truthy(result.findings)
       THEN Ok([lines |-> head \o << [kind |-> "no_issues"] >> \o blank, count |-> 0])
       ELSE LET n == PyLen(result.findings)
                shown == PySlice(result.findings, ReportLimit)
            IN IF ~n.ok THEN n
               ELSE IF ~shown.ok THEN shown
               ELSE Ok([lines |->
                          head \o << [kind |-> "found", n |-> n.val] >>
                          \o RenderFindings(shown.val.v, 1)
                          \o (IF n.val > ReportLimit
                              THEN << [kind |-> "more", n |-> n.val - ReportLimit] >>
                              ELSE <<>>)
                          \o blank,
                        count |-> n.val])

RECURSIVE FormatResults(_, _)
FormatResults(rs, i) ==
    IF i > Len(rs)
    THEN Ok([lines |-> <<>>, count |-> 0])
    ELSE LET here == FormatResult(rs[i])
             rest == IF here.ok THEN FormatResults(rs, i + 1) ELSE here
         IN IF ~rest.ok THEN rest
            ELSE Ok([lines |-> here.val.lines \o rest.val.lines,
                     count |-> here.val.count + rest.val.count])

\* format_report(results): the lines of the report, or the exception raised.
format_report(rs) ==
    LET body == FormatResults(rs, 1)
    IN IF ~body.ok THEN body
       ELSE Ok(<< [kind |-> "rule"], [kind |-> "title"], [kind |-> "rule"],
                  [kind |-> "blank"] >>
               \o body.val.lines
               \o << [kind |-> "rule"], [kind |-> "total", n |-> body.val.count],
                     [kind |-> "rule"] >>)

(* ------------------------------ exit policy ---------------------------- *)

\* The test of one finding (lines 310-313): "exit" for sys.exit(1), "raise"
\* when .upper() is called on a value that has none, "next" otherwise.
SeverityOf(finding) ==
    IF finding.t # "dict"
    THEN "next"
    ELSE LET severity == PyUpper(PyGet(finding, "issue_severity", JStr("")).val)
         IN IF ~severity.ok THEN "raise"
            ELSE IF severity.val \in {"HIGH", "CRITICAL"} THEN "exit"
            ELSE "next"

\* Mutant of SeverityOfFindings: only the findings the report shows are tested.
RECURSIVE SeverityOfFindings_FirstTen(_, _)
SeverityOfFindings_FirstTen(fs, i) ==
    IF i > Len(fs) \/ i > ReportLimit
    THEN "next"
    ELSE LET here == SeverityOf(fs[i])
         IN IF here = "next" THEN SeverityOfFindings_FirstTen(fs, i + 1) ELSE here

RECURSIVE SeverityOfFindings(_, _)
SeverityOfFindings(fs, i) ==
    IF i > Len(fs)
    THEN "next"
    ELSE LET here == SeverityOf(fs[i])
         IN IF here = "next" THEN SeverityOfFindings(fs, i + 1) ELSE here

\* The loop of lines 308-313 from result i on.
RECURSIVE SeverityLoop(_, _)
SeverityLoop(rs, i) ==
    IF i > Len(rs)
    THEN "next"
    ELSE LET fs == PyIter(rs[i].findings)
             here == IF fs.ok THEN SeverityOfFindings(fs.val, 1) ELSE "raise"
         IN IF here = "next" THEN SeverityLoop(rs, i + 1) ELSE here

(* -------------------------------- main --------------------------------- *)

Tools == <<"bandit", "pip-audit", "safety", "detect-secrets">>

\* The choices of --skip.
SkipChoices == {"bandit", "pip-audit", "safety", "secrets"}

NoCall == [tool |-> "none", o |-> NotFound]

Init ==
    /\ pc = "start"
    /\ path_exists \in BOOLEAN
    /\ skip \in SUBSET SkipChoices
    /\ output \in BOOLEAN
    /\ results = <<>>
    /\ invoked = [t \in {Tools[i] : i \in 1..Len(Tools)} |-> 0]
    /\ last = NoCall
    /\ report = <<>>
    /\ report_data = [written |-> FALSE, results |-> <<>>]
    /\ exit_code = -1
    /\ crashed = "none"

\* Mutant of Invoke: the result is put in front of the earlier ones.
Invoke_Prepend(tool, o, result) ==
    /\ results' = <<result>> \o results
    /\ invoked' = [invoked EXCEPT ![tool] = @ + 1]
    /\ last' = [tool |-> tool, o |-> o]

\* results.append(run_x(...)): one subprocess.run call with outcome o.
Invoke(tool, o, result) ==
    /\ results' = Append(results, result)
    /\ invoked' = [invoked EXCEPT ![tool] = @ + 1]
    /\ last' = [tool |-> tool, o |-> o]

\* Mutant of CheckPath: the missing path is reported but the run goes on.
CheckPath_NoExit ==
    /\ pc = "start"
    /\ pc' = "bandit"
    /\ UNCHANGED <<path_exists, skip, output, results, invoked, last,
                   report, report_data, exit_code, crashed>>

\* Lines 264-268.
CheckPath ==
    /\ pc = "start"
    /\ IF ~path_exists
       THEN pc' = "done" /\ exit_code' = 1
       ELSE pc' = "bandit" /\ UNCHANGED exit_code
    /\ UNCHANGED <<path_exists, skip, output, results, invoked, last,
                   report, report_data, crashed>>

\* Lines 272-274.
BanditStep ==
    /\ pc = "bandit"
    /\ pc' = "pip-audit"
    /\ IF "bandit" \notin skip
       THEN \E o \in Outcomes(BanditStdout) : Invoke("bandit", o, run_bandit(o))
       ELSE UNCHANGED <<results, invoked, last>>
    /\ UNCHANGED <<path_exists, skip, output, report, report_data, exit_code, crashed>>

\* Lines 276-278.
PipAuditStep ==
    /\ pc = "pip-audit"
    /\ pc' = "safety"
    /\ IF "pip-audit" \notin skip
       THEN \E o \in Outcomes(PipAuditStdout) : Invoke("pip-audit", o, run_pip_audit(o))
       ELSE UNCHANGED <<results, invoked, last>>
    /\ UNCHANGED <<path_exists, skip, output, report, report_data, exit_code, crashed>>

\* Lines 280-282.
SafetyStep ==
    /\ pc = "safety"
    /\ pc' = "secrets"
    /\ IF "safety" \notin skip
       THEN \E o \in Outcomes(SafetyStdout) : Invoke("safety", o, run_safety(o))
       ELSE UNCHANGED <<results, invoked, last>>
    /\ UNCHANGED <<path_exists, skip, output, report, report_data, exit_code, crashed>>

\* Lines 284-286.
SecretsStep ==
    /\ pc = "secrets"
    /\ pc' = "report"
    /\ IF "secrets" \notin skip
       THEN \E o \in Outcomes(SecretsStdout) :
                Invoke("detect-secrets", o, check_secrets(o))
       ELSE UNCHANGED <<results, invoked, last>>
    /\ UNCHANGED <<path_exists, skip, output, report, report_data, exit_code, crashed>>

\* Lines 288-289: print(format_report(results)).  An exception raised inside
\* format_report is caught nowhere: the interpreter prints the traceback and
\* the process ends with status 1.
PrintReport ==
    /\ pc = "report"
    /\ LET text == format_report(results)
       IN IF text.ok
          THEN /\ report' = text.val
               /\ pc' = "output"
               /\ UNCHANGED <<exit_code, crashed>>
          ELSE /\ crashed' = "format_report"
               /\ exit_code' = 1
               /\ pc' = "done"
               /\ UNCHANGED report
    /\ last' = NoCall
    /\ UNCHANGED <<path_exists, skip, output, results, invoked, report_data>>

\* Lines 291-305: the structured report, written when --output is given.
WriteOutput ==
    /\ pc = "output"
    /\ pc' = "exit"
    /\ IF output
       THEN report_data' =
                [written |-> TRUE,
                 results |-> [i \in 1..Len(results) |->
                                [tool |-> results[i].tool,
                                 success |-> results[i].success,
                                 findings |-> results[i].findings,
                                 error |-> results[i].error]]]
       ELSE UNCHANGED report_data
    /\ UNCHANGED <<path_exists, skip, output, results, invoked, last,
                   report, exit_code, crashed>>

\* Lines 307-315: the severity loop and sys.exit.  An exception raised in the
\* loop ends the process with status 1, like any uncaught exception.
ExitPolicy ==
    /\ pc = "exit"
    /\ pc' = "done"
    /\ LET verdict == SeverityLoop(results, 1)
       IN /\ exit_code' = IF verdict = "next" THEN 0 ELSE 1
          /\ crashed' = IF verdict = "raise" THEN "severity_loop" ELSE crashed
    /\ UNCHANGED <<path_exists, skip, output, results, invoked, last,
                   report, report_data>>

Next ==
    \/ CheckPath
    \/ BanditStep
    \/ PipAuditStep
    \/ SafetyStep
    \/ SecretsStep
    \/ PrintReport
    \/ WriteOutput
    \/ ExitPolicy

Spec == Init /\ [][Next]_vars

(* ------------------------- vocabulary of the claims -------------------- *)

PostTools == {"report", "output", "exit", "done"}

\* The --skip word of a tool.
SkipName(t) == IF t = "detect-secrets" THEN "secrets" ELSE t

\* The non-skipped tools, in the order main runs them.
Configured == SelectSeq(Tools, LAMBDA t : SkipName(t) \notin skip)

ToolsOf(rs) == [i \in 1..Len(rs) |-> rs[i].tool]

\* The ScanResult of the most recent call.
LastResult == results[Len(results)]

Called == last.tool # "none"

IsEmptyList(x) == x.t = "list" /\ Len(x.v) = 0

NonEmptyText(x) == x.t = "str" /\ x.v # ""

\* A record whose issue_severity is HIGH or CRITICAL in any letter case.
IsHighOrCritical(f) ==
    /\ f.t = "dict"
    /\ "issue_severity" \in DOMAIN f.v
    /\ f.v["issue_severity"].t = "str"
    /\ f.v["issue_severity"].v \in
           {"high", "High", "HIGH", "critical", "Critical", "CRITICAL"}

HighOrCriticalExists ==
    \E i \in 1..Len(results) :
        /\ results[i].success
        /\ results[i].findings.t = "list"
        /\ \E j \in 1..Len(results[i].findings.v) :
               IsHighOrCritical(results[i].findings.v[j])

\* The tool's stdout went through json.loads.
Decoded(c) ==
    /\ c.o.kind = "exited"
    /\ c.o.stdout # ""
    /\ (c.tool \in {"bandit", "pip-audit"} => c.o.returncode \in {0, 1})

DecodeErrorText == json_loads(Malformed).msg

ReportPrinted == report # <<>>

ReportHeaders ==
    LET hs == SelectSeq(report, LAMBDA l : l.kind = "header")
    IN [i \in 1..Len(hs) |-> hs[i].tool]

(* ------------------------------- claims -------------------------------- *)

\* C1: in every scan run the exit status is 1 if and only if a successful
\* result holds a finding whose severity is HIGH or CRITICAL (in any case).
\* Stated for the runs that pass the path check of lines 264-266.
C1_ExitOneIffHighOrCritical ==
    (pc = "done" /\ path_exists) => (exit_code = 1 <=> HighOrCriticalExists)

\* The part of C1 the code keeps: a run that ends through sys.exit exits 1
\* exactly when a HIGH or CRITICAL finding exists.
C1_ExitPolicyWithoutCrash ==
    (pc = "done" /\ path_exists /\ crashed = "none") =>
        (exit_code = 1 <=> HighOrCriticalExists)

\* C2: every ScanResult with success = false carries a non-empty error
\* message and an empty finding sequence.
C2_FailureCarriesMessage ==
    \A i \in 1..Len(results) :
        ~results[i].success =>
            NonEmptyText(results[i].error) /\ IsEmptyList(results[i].findings)

\* C3: for each of the four tools, a child exit code outside {0, 1} gives
\* success = false with error equal to the captured stderr.
C3_RejectedExitCodeFails ==
    (Called /\ last.o.kind = "exited" /\ last.o.returncode \notin {0, 1}) =>
        /\ ~LastResult.success
        /\ LastResult.error = JStr(last.o.stderr)
        /\ IsEmptyList(LastResult.findings)

\* The part of C3 the code keeps: run_bandit and run_pip_audit turn an exit
\* code outside {0, 1} into success = false with error = stderr.
C3_BanditAndPipAuditReject ==
    (Called /\ last.tool \in {"bandit", "pip-audit"} /\ last.o.kind = "exited"
            /\ last.o.returncode \notin {0, 1}) =>
        /\ ~LastResult.success
        /\ LastResult.error = JStr(last.o.stderr)
        /\ IsEmptyList(LastResult.findings)

\* C4: a malformed stdout payload handed to the decoder gives that tool a
\* result with success = false, no findings and the decode error as message,
\* and the run still invokes and reports every other non-skipped tool.
C4_DecodeFailureReported ==
    /\ (Called /\ Decoded(last) /\ last.o.stdout = Malformed) =>
           /\ ~LastResult.success
           /\ IsEmptyList(LastResult.findings)
           /\ LastResult.error = JStr(DecodeErrorText)
    /\ (pc = "done" /\ \E i \in 1..Len(results) :
                           results[i].error = JStr(DecodeErrorText)) =>
           /\ \A i \in 1..Len(Configured) : invoked[Configured[i]] = 1
           /\ ReportPrinted
           /\ ReportHeaders = [i \in 1..Len(Configured) |-> Upper(Configured[i])]

\* The part of C4 the code keeps: the decode failure is recorded as a failed
\* result, every non-skipped tool is still invoked once, and the report, when
\* format_report returns, shows the decode error under the tool's header.
C4_DecodeFailureRecorded ==
    /\ (Called /\ Decoded(last) /\ last.o.stdout = Malformed) =>
           /\ ~LastResult.success
           /\ IsEmptyList(LastResult.findings)
           /\ LastResult.error = JStr(DecodeErrorText)
    /\ (pc \in PostTools /\ \E i \in 1..Len(results) :
                                results[i].error = JStr(DecodeErrorText)) =>
           /\ ToolsOf(results) = Configured
           /\ \A i \in 1..Len(Configured) : invoked[Configured[i]] = 1
           /\ ReportPrinted =>
                  \E i \in 1..Len(report) :
                      report[i] = [kind |-> "error", msg |-> JStr(DecodeErrorText)]

\* C5: whatever the tools print, a run that passed the path check prints the
\* report of all non-skipped tools and ends through the exit policy, never
\* through an uncaught exception.
C5_NeverCrashes ==
    /\ crashed = "none"
    /\ (pc = "done" /\ path_exists) => ReportPrinted


\* C6 as stated: in every run each non-skipped tool is invoked exactly once.
C6_EveryRunInvokesConfigured ==
    pc = "done" => \A i \in 1..Len(Configured) : invoked[Configured[i]] = 1

\* The place of a tool's step in main, and of the step main is at.
ToolRank(t) ==
    CASE t = "bandit" -> 1 [] t = "pip-audit" -> 2 [] t = "safety" -> 3
      [] t = "detect-secrets" -> 4

PcRank ==
    CASE pc = "start" -> 0 [] pc = "bandit" -> 1 [] pc = "pip-audit" -> 2
      [] pc = "safety" -> 3 [] pc = "secrets" -> 4 [] OTHER -> 5

\* The non-skipped tools whose step main has passed.
Attempted == SelectSeq(Configured, LAMBDA t : ToolRank(t) < PcRank)

\* C6 (amended): in every run whose project path exists, each non-skipped
\* tool is invoked exactly once and each skipped tool never, whatever the
\* earlier tools returned; the results are recorded in the order bandit,
\* pip-audit, safety, detect-secrets, and the textual and the structured
\* report list them in that order.
C6_OnceEachInFixedOrder ==
    path_exists =>
        /\ \A i \in 1..Len(Tools) :
               invoked[Tools[i]] =
                   IF \E j \in 1..Len(Attempted) : Attempted[j] = Tools[i]
                   THEN 1 ELSE 0
        /\ ToolsOf(results) = Attempted
        /\ ReportPrinted =>
               ReportHeaders = [i \in 1..Len(Configured) |-> Upper(Configured[i])]
        /\ report_data.written => ToolsOf(report_data.results) = Configured

\* C6 witness: a finished run with pip-audit skipped, a failed first tool and
\* both reports produced.
C6_Witness ==
    /\ pc = "done" /\ path_exists /\ skip = {"pip-audit"}
    /\ Len(results) = 3 /\ ~results[1].success /\ results[3].success
    /\ ReportPrinted /\ report_data.written

\* C7 as stated: only bandit findings can lead to exit code 1, so a run that
\* ends through the exit policy with no bandit finding exits 0.
C7_OnlyBanditFindingsCount ==
    (/\ pc = "done" /\ path_exists /\ crashed = "none"
     /\ \A i \in 1..Len(results) :
            results[i].tool = "bandit" => IsEmptyList(results[i].findings))
    => exit_code = 0

\* A result whose findings are a list of values none of which is a record
\* with an issue_severity field.
NoSeverityField(r) ==
    /\ r.findings.t = "list"
    /\ \A j \in 1..Len(r.findings.v) :
           r.findings.v[j].t = "dict" =>
               "issue_severity" \notin DOMAIN r.findings.v[j].v

\* C7 (amended): secret-detection findings never lead to exit code 1,
\* whatever the tool's records contain, and neither do dependency findings
\* without an issue_severity field; a dependency finding that carries
\* issue_severity HIGH or CRITICAL leads to exit code 1 like a bandit one.
C7_SeverityFieldDecides ==
    (pc = "done" /\ path_exists) =>
        /\ (\A i \in 1..Len(results) :
                results[i].tool # "detect-secrets" => NoSeverityField(results[i]))
           => exit_code = 0
        /\ (\E i \in 1..Len(results) :
                /\ results[i].tool \in {"pip-audit", "safety"}
                /\ results[i].findings.t = "list"
                /\ \E j \in 1..Len(results[i].findings.v) :
                       IsHighOrCritical(results[i].findings.v[j]))
           => exit_code = 1

\* C7 witness: a run that exits 0 although detect-secrets reported records
\* that carried issue_severity HIGH and pip-audit reported a vulnerability.
C7_Witness ==
    /\ pc = "done" /\ exit_code = 0 /\ skip = {}
    /\ results[2].success /\ Len(results[2].findings.v) > 0
    /\ results[4].success /\ Len(results[4].findings.v) > 0

\* C8: for every tool, exit code 0 or 1 with empty stdout gives success =
\* true, an empty finding sequence and no error message.
C8_EmptyStdoutIsClean ==
    (Called /\ last.o.kind = "exited" /\ last.o.returncode \in {0, 1}
            /\ last.o.stdout = "") =>
        /\ LastResult.tool = last.tool
        /\ LastResult.success
        /\ IsEmptyList(LastResult.findings)
        /\ LastResult.error = JNull

\* C8 witness: pip-audit exited 1 with nothing on stdout.
C8_Witness ==
    /\ Called /\ last.tool = "pip-audit" /\ last.o.kind = "exited"
    /\ last.o.returncode = 1 /\ last.o.stdout = "" /\ LastResult.success

\* C9: a tool whose executable cannot be located gets success = false, no
\* findings and the message "<tool> not installed. Run: pip install <tool>",
\* and the run goes on to invoke every remaining non-skipped tool.
C9_MissingToolRecorded ==
    /\ (Called /\ last.o.kind = "not_found") =>
           /\ LastResult.tool = last.tool
           /\ ~LastResult.success
           /\ IsEmptyList(LastResult.findings)
           /\ LastResult.error =
                  JStr(last.tool \o " not installed. Run: pip install " \o last.tool)
    /\ \A i \in 1..Len(results) :
           (/\ results[i].error =
                   JStr(results[i].tool \o " not installed. Run: pip install "
                        \o results[i].tool)
            /\ pc \in PostTools)
           => /\ ToolsOf(results) = Configured
              /\ \A j \in 1..Len(Configured) : invoked[Configured[j]] = 1

\* C9 witness: bandit was missing and the three later tools were still run.
C9_Witness ==
    /\ pc = "done" /\ skip = {} /\ Len(results) = 4
    /\ results[1].error = JStr("bandit not installed. Run: pip install bandit")
    /\ results[3].error = JStr("safety not installed. Run: pip install safety")
    /\ \A t \in DOMAIN invoked : invoked[t] = 1

(* ------------------ format_report on arbitrary ScanResults ------------- *)

\* Longest sequence of ScanResults handed to format_report.
MaxResults == 2

ResultSamples ==
    { ScanResult("bandit", FALSE, JList(<<>>), JStr("usage: invalid arguments")),
      ScanResult("safety", FALSE, JList(<<PipAuditFinding, PipAuditFinding>>), JStr("")),
      ScanResult("bandit", TRUE, JList(<<>>), JNull),
      ScanResult("bandit", TRUE, JList(<<BanditFinding(JStr("LOW"), 1)>>), JNull),
      ScanResult("bandit", TRUE, JList(LongFindings), JNull),
      ScanResult("bandit", TRUE, JList(SubSeq(LongFindings, 1, ReportLimit)), JNull),
      ScanResult("pip-audit", TRUE, JList(<<PipAuditFinding, JStr("note")>>), JNull),
      ScanResult("detect-secrets", TRUE,
                 check_secrets(Exited(0,
                     "{\"results\": {\"a.py\": [{}], \"b.py\": [{}, {}]}}", "")).findings,
                 JNull),
      ScanResult("pip-audit", TRUE, JList([i \in 1..ManyFindings |-> JNum(i)]), JNull),
      ScanResult("safety", TRUE, JNull, JNull),
      ScanResult("safety", TRUE, JNum(5), JNull),
      ScanResult("safety", TRUE, JStr("ok"), JNull) }

ResultSeqs ==
    UNION { [1..n -> ResultSamples] : n \in 0..MaxResults }

\* format_report is given any sequence of ScanResults.
InitReport ==
    /\ pc = "report"
    /\ path_exists = TRUE
    /\ skip = {}
    /\ output = FALSE
    /\ results \in ResultSeqs
    /\ invoked = [t \in {Tools[i] : i \in 1..Len(Tools)} |-> 0]
    /\ last = NoCall
    /\ report = <<>>
    /\ report_data = [written |-> FALSE, results |-> <<>>]
    /\ exit_code = -1
    /\ crashed = "none"

NextReport == PrintReport

SpecReport == InitReport /\ [][NextReport]_vars

\* len() of a findings value; a value without a length counts for nothing.
FindingCount(x) ==
    CASE x.t = "list" -> Len(x.v)
      [] x.t = "dict" -> Len(x.k)
      [] x.t = "str" -> Len(PyChars(x.v))
      [] OTHER -> 0

RECURSIVE SumOfSuccessful(_, _)
SumOfSuccessful(rs, i) ==
    IF i > Len(rs)
    THEN 0
    ELSE (IF rs[i].success THEN FindingCount(rs[i].findings) ELSE 0)
         + SumOfSuccessful(rs, i + 1)

\* The number on the report's "Total findings" line.
ReportTotal == report[Len(report) - 1].n

\* C10: the report's total equals the sum of the lengths of the findings of
\* the results with success = true, findings past the tenth included.
C10_TotalCountsSuccessfulFindings ==
    ReportPrinted =>
        /\ report[Len(report) - 1].kind = "total"
        /\ ReportTotal = SumOfSuccessful(results, 1)

\* C10 witness: a report that cut a result at ten findings, next to a failed
\* result that carries findings, and still counts all of the first.
C10_Witness ==
    /\ ReportPrinted
    /\ Len(results) = 2
    /\ results[1].success /\ FindingCount(results[1].findings) > ReportLimit
    /\ ~results[2].success /\ FindingCount(results[2].findings) > 0
    /\ \E i \in 1..Len(report) : report[i].kind = "more"
    /\ ReportTotal = ManyFindings

\* The findings of a result as the sequence a loop over them visits.
FindingSeq(x) ==
    CASE x.t = "list" -> x.v
      [] x.t = "str" -> PyChars(x.v)
      [] OTHER -> <<>>

\* Where the tool headers stand in the printed report.
HeaderPositions ==
    SelectSeq([i \in 1..Len(report) |-> i], LAMBDA i : report[i].kind = "header")

\* The lines the report gives to its k-th tool, header included; the last
\* three lines of the report are the closing rule, total and rule.
ReportSection(k) ==
    SubSeq(report, HeaderPositions[k],
           IF k < Len(HeaderPositions)
           THEN HeaderPositions[k + 1] - 1
           ELSE Len(report) - 3)

LinesOfKind(lines, kind) == SelectSeq(lines, LAMBDA l : l.kind = kind)

Min(a, b) == IF a < b THEN a ELSE b

\* C11: for every successful result with n findings the report renders
\* exactly min(n, 10) of them, the first ones in their order, and has a
\* "... and n - 10 more" line exactly when n > 10.
C11_FirstTenThenMore ==
    ReportPrinted =>
        /\ Len(HeaderPositions) = Len(results)
        /\ \A k \in 1..Len(results) :
               results[k].success =>
                   LET fs == FindingSeq(results[k].findings)
                       n == Len(fs)
                       items == LinesOfKind(ReportSection(k), "item")
                       more == LinesOfKind(ReportSection(k), "more")
                   IN /\ Len(items) = Min(n, ReportLimit)
                      /\ \A j \in 1..Len(items) :
                             /\ items[j].i = j
                             /\ items[j] = RenderFinding(j, fs[j])[1]
                      /\ Len(more) = (IF n > ReportLimit THEN 1 ELSE 0)
                      /\ n > ReportLimit => more[1].n = n - ReportLimit

\* C11 witness: a report of one result with exactly ten findings (ten items,
\* no overflow line) and one with more than ten (ten items and the line).
C11_Witness ==
    /\ ReportPrinted
    /\ Len(results) = 2
    /\ results[1].success /\ FindingCount(results[1].findings) = ReportLimit
    /\ Len(LinesOfKind(ReportSection(1), "item")) = ReportLimit
    /\ Len(LinesOfKind(ReportSection(1), "more")) = 0
    /\ results[2].success /\ results[2].tool = "pip-audit"
    /\ FindingCount(results[2].findings) > ReportLimit
    /\ Len(LinesOfKind(ReportSection(2), "item")) = ReportLimit
    /\ Len(LinesOfKind(ReportSection(2), "more")) = 1

\* A successful result holds a HIGH or CRITICAL finding past the tenth.
LateHighOrCritical ==
    \E i \in 1..Len(results) :
        /\ results[i].success
        /\ results[i].findings.t = "list"
        /\ \E j \in 1..Len(results[i].findings.v) :
               j > ReportLimit /\ IsHighOrCritical(results[i].findings.v[j])

\* C12: the cut at ten findings is made by the textual report alone: the
\* structured report written with --output holds every ScanResult in
\* invocation order with its tool, success flag, error and all its findings
\* in order, and a HIGH or CRITICAL finding past the tenth still gives exit
\* code 1.
C12_TruncationOnlyInText ==
    /\ report_data.written =>
           /\ output
           /\ ToolsOf(report_data.results) = Configured
           /\ Len(report_data.results) = Len(results)
           /\ \A i \in 1..Len(results) :
                  /\ report_data.results[i].tool = results[i].tool
                  /\ report_data.results[i].success = results[i].success
                  /\ report_data.results[i].error = results[i].error
                  /\ report_data.results[i].findings = results[i].findings
    /\ pc = "exit" => (report_data.written <=> output)
    /\ (pc = "done" /\ path_exists /\ LateHighOrCritical) => exit_code = 1

\* C12 witness: bandit alone reported more than ten findings of which only
\* one past the tenth is CRITICAL; the report shows ten, the structured
\* report holds all, and the run exits 1 through the exit policy.
C12_Witness ==
    /\ pc = "done" /\ crashed = "none" /\ exit_code = 1
    /\ output /\ report_data.written
    /\ Len(results) = 1 /\ results[1].tool = "bandit" /\ results[1].success
    /\ Len(results[1].findings.v) > ReportLimit
    /\ \A j \in 1..ReportLimit : ~IsHighOrCritical(results[1].findings.v[j])
    /\ Len(LinesOfKind(report, "item")) = ReportLimit
    /\ Len(report_data.results[1].findings.v) = Len(results[1].findings.v)

\* The status line format_report owes a result.
StatusOf(r) ==
    IF ~r.success THEN [kind |-> "error", msg |-> r.error]
    ELSE IF FindingCount(r.findings) = 0 THEN [kind |-> "no_issues"]
    ELSE [kind |-> "found", n |-> FindingCount(r.findings)]

\* The k-th section of the report is the header of results[k], the dashes
\* and exactly one status line, the one the result's flags call for.
SectionShowsStatus(k) ==
    LET sec == ReportSection(k)
        status == SelectSeq(sec, LAMBDA l : l.kind \in {"error", "no_issues", "found"})
    IN /\ sec[1] = [kind |-> "header", tool |-> Upper(results[k].tool)]
       /\ sec[2].kind = "dashes"
       /\ Len(status) = 1
       /\ sec[3] = status[1]
       /\ status[1] = StatusOf(results[k])

ReportListsConfigured ==
    /\ ReportHeaders = [i \in 1..Len(Configured) |-> Upper(Configured[i])]
    /\ \A k \in 1..Len(results) : SectionShowsStatus(k)

\* The tool of a call did not run to an exit code of 0 or 1.
ExecFailed(c) ==
    \/ c.o.kind \in {"not_found", "raised"}
    \/ c.o.kind = "exited" /\ c.o.returncode \notin {0, 1}

\* C13: the textual report lists every configured tool exactly once, its
\* header followed by exactly one status (the error line if success = false,
\* "No issues found." if success = true without findings, "Found N issue(s):"
\* otherwise), and a tool that failed is never shown as "No issues found.".
C13_EveryToolHasOneStatus ==
    /\ (pc \in {"output", "exit", "done"} /\ path_exists) =>
           ReportPrinted /\ ReportListsConfigured
    /\ (Called /\ ExecFailed(last)) =>
           ~(/\ FormatResult(LastResult).ok
             /\ FormatResult(LastResult).val.lines[3].kind = "no_issues")

\* The part of C13 the code keeps: a report that is printed lists every
\* configured tool once with the one status its success flag and findings
\* call for.
C13_PrintedReportListsConfigured ==
    ReportPrinted => ReportListsConfigured

\* C14: when the project path does not exist the run exits with code 1
\* before any tool is invoked: no ScanResult, no report, no --output file.
C14_MissingPathExitsEarly ==
    ~path_exists =>
        /\ pc \in {"start", "done"}
        /\ pc = "done" => exit_code = 1
        /\ \A i \in 1..Len(Tools) : invoked[Tools[i]] = 0
        /\ results = <<>>
        /\ ~ReportPrinted
        /\ ~report_data.written
        /\ crashed = "none"

\* C14 witness: a finished run with --output and no tool skipped that exited
\* 1 on the missing path, with no HIGH or CRITICAL finding anywhere.
C14_Witness ==
    /\ pc = "done" /\ ~path_exists /\ exit_code = 1
    /\ output /\ skip = {}
    /\ ~HighOrCriticalExists

====
